---- MODULE Spec2Model ----
(***************************************************************************)
(* A model of the ingestion and aggregation scripts of FinRAG-AI-Chatbot:  *)
(*   Script/fetch_news_articles.py   (news scheduler, dedup gate, writer)  *)
(*   Script/fetch_stock_data.py      (historical bars writer)              *)
(*   Script/stock_prices_transformed_cloud_function.py (text export)       *)
(***************************************************************************)
EXTENDS Integers, Sequences, FiniteSets, TLC

(***************************************************************************)
(* Bounds of the model.                                                    *)
(***************************************************************************)
\* how many tickers of the configured list the model walks
NumTickers == 6
\* how many upstream deviations (failures, changed articles) a run may see
MaxFaults == 1
\* upstream article ids are 1..MaxId
MaxId == 2

(***************************************************************************)
(* Program constants of fetch_news_articles.py.                            *)
(***************************************************************************)
batch_size == 5
CooldownSeconds == 60
CycleSeconds == 86400

TickerList ==
  <<"AAPL", "MSFT", "GOOGL", "AMZN", "TSLA",
    "META", "NVDA", "BRK.B", "V", "JNJ",
    "WMT", "JPM", "PG", "MA", "UNH">>

Min(a, b) == IF a < b THEN a ELSE b

tickers == SubSeq(TickerList, 1, Min(NumTickers, Len(TickerList)))

TickerSet == {tickers[n] : n \in 1..Len(tickers)}

None == "None"

ArticleIds == <<"a1", "a2", "a3", "a4">>

Ids == {ArticleIds[n] : n \in 1..MaxId}

(***************************************************************************)
(* Python values, tagged with their type, and json.dumps / json.loads.     *)
(***************************************************************************)
PyStr(s) == [t |-> "str", v |-> s]
PyNum(n) == [t |-> "num", v |-> n]
PyDict(f) == [t |-> "dict", v |-> f]
PyNone == [t |-> "none", v |-> None]

PyEq(x, y) == x.t = y.t /\ x.v = y.v

RECURSIVE JsonText(_)
JsonText(x) ==
  CASE x.t = "dict" -> <<"{", [k \in DOMAIN x.v |-> JsonText(x.v[k])], "}">>
    [] x.t = "str"  -> <<"quote", x.v, "quote">>
    [] x.t = "num"  -> <<"num", x.v>>
    [] OTHER        -> <<"null">>

dumps(x) == PyStr(JsonText(x))

RECURSIVE JsonValue(_)
JsonValue(txt) ==
  CASE txt[1] = "{"     -> PyDict([k \in DOMAIN txt[2] |-> JsonValue(txt[2][k])])
    [] txt[1] = "quote" -> PyStr(txt[2])
    [] txt[1] = "num"   -> PyNum(txt[2])
    [] OTHER            -> PyNone

loads(s) == JsonValue(s.v)

(***************************************************************************)
(* Timestamps, strftime / strptime and the partition path.                 *)
(***************************************************************************)
RECURSIVE Pow10(_)
Pow10(w) == IF w = 0 THEN 1 ELSE 10 * Pow10(w - 1)

\* strftime of a numeric field: w zero-padded decimal digits
Pad(n, w) == [d \in 1..w |-> (n \div Pow10(w - d)) % 10]

RECURSIVE Num(_)
Num(ds) == IF Len(ds) = 0 THEN 0 ELSE 10 * Num(SubSeq(ds, 1, Len(ds) - 1)) + ds[Len(ds)]

\* the text "YYYY-MM-DDTHH:MM:SSZ" of a timestamp, as its digit groups
IsoText(ts) == <<Pad(ts.Y, 4), Pad(ts.Mo, 2), Pad(ts.D, 2),
                 Pad(ts.H, 2), Pad(ts.Mi, 2), Pad(ts.S, 2)>>

strptime(s) == [Y |-> Num(s[1]), Mo |-> Num(s[2]), D |-> Num(s[3]),
                H |-> Num(s[4]), Mi |-> Num(s[5]), S |-> Num(s[6])]

T1 == [Y |-> 2024, Mo |-> 10, D |-> 1, H |-> 9, Mi |-> 5, S |-> 7]
T2 == [Y |-> 2024, Mo |-> 11, D |-> 12, H |-> 14, Mi |-> 30, S |-> 45]
Timestamps == {T1, T2}

Put(b, path, obj) ==
  [p \in DOMAIN b \cup {path} |-> IF p = path THEN obj ELSE b[p]]

EmptyBucket == [p \in {} |-> None]


(***************************************************************************)
(* State.                                                                  *)
(***************************************************************************)
VARIABLES
  pc,                \* news scheduler: Idle, BatchInProgress, Cooldown, LongSleep, Crashed
  i,                 \* start index of the current batch (range(0, len(tickers), batch_size))
  t,                 \* how many tickers of the current batch have been processed
  last_fetched_ids,  \* ticker -> last fetched article id, None when absent
  bucket,            \* news_articles-bucket: blob path -> stored object
  sleepFor,          \* seconds of the time.sleep the scheduler is in, 0 when not sleeping
  obs,               \* what the last processed ticker did
  seen,              \* history: ticker -> article id of its previous observation
  batchReqs,         \* news API requests issued since the last suspension
  batchScrapes,      \* article scrapes issued since the last suspension
  batchWrites,       \* object-store write attempts since the last suspension
  batchOk,           \* tickers since the last suspension whose fetch and scrape gave content
  batchFromEmpty,    \* whether last_fetched_ids was empty when the current batch began
  faults,            \* upstream deviations seen so far
  writes,            \* history: (source, record timestamp, folder) of every write attempt
  \* fetch_stock_data.py
  spc,               \* fetch, rows, sleep, done, crashed
  sidx,              \* index in sp500_tickers of the ticker being fetched
  rows,              \* rows of the downloaded frame still to be written
  stock_bucket,      \* stock_prices-bucket: blob path -> stored object
  wall,              \* wall clock, seconds since midnight
  runs,              \* how many times the script has been started
  sobs,              \* what the last processed row did
  \* stock_prices_transformed_cloud_function.py
  apc,               \* idle, loop, done
  request,           \* the request being handled
  ati,               \* index in the request's tickers
  ami,               \* index in the request's months
  transformed_bucket,\* stock_prices_transformed: blob path -> text
  response,          \* what process_request returned, None while it runs
  aobs,              \* what the last processed partition did
  listings,          \* list_blobs calls made for the request
  loads_,            \* blob downloads made for the request
  saves,             \* corpus writes attempted for the request
  handled            \* how many requests have been received

VARIABLES
  requested          \* history: the tickers requested from the news API in this pass

newsVars == <<pc, i, t, last_fetched_ids, bucket, sleepFor, obs, seen,
              batchReqs, batchScrapes, batchWrites, batchOk, batchFromEmpty, faults,
              requested>>

stockVars == <<spc, sidx, rows, stock_bucket, wall, runs, sobs>>

VARIABLES
  exported           \* history: the dataset last exported to each path

aggVars == <<apc, request, ati, ami, transformed_bucket, response, aobs,
             listings, loads_, saves, handled, exported>>

VARIABLES
  cpc,               \* Flask server: "down" before before_first_request, then "up"
  ref,               \* the node /incorrect_response_counter: its keys count and counter
  threshold,         \* os.getenv("RETRAINING_THRESHOLD")
  cobs,              \* history: the last POST /increment_counter and what it did
  uret,              \* history: the last call of the UI's update_counter
  calls              \* how many calls were made so far

VARIABLES
  upc,               \* how Chatbot_UI.py was started: "closed", "script", "module"
  page,              \* st.session_state.page, "unset" before the first run
  user_input,        \* the content of the text box
  shown,             \* the buttons drawn by the last run
  answer,            \* the response written by the last run, None when none was
  feedback,          \* history: the inc_factor of every update_counter call
  uobs,              \* history: the last run, the widget that triggered it
  interactions       \* how many interactions happened so far

counterVars == <<cpc, ref, threshold, cobs, uret, calls>>

uiVars == <<upc, page, user_input, shown, answer, feedback, uobs, interactions>>

webVars == <<counterVars, uiVars>>

vars == <<newsVars, writes, stockVars, aggVars, webVars>>

(***************************************************************************)
(* fetch_news_articles.py                                                  *)
(***************************************************************************)
ArticleFields == {"id", "article_url", "published_utc", "title", "description"}

\* what may be wrong with the article of a response: a field that is absent, or
\* a published_utc that is not of the form %Y-%m-%dT%H:%M:%SZ
ArticleDefects == ArticleFields \cup {"published_format"}

\* what requests.get(base_url, params) may give back for one ticker
NewsResponses ==
  [kind : {"exception"}, status : {0}, results : {"none"}, id : {"a1"},
   published_utc : {IsoText(T1)}, missing : {"none"}]
  \cup
  [kind : {"http"}, status : {429}, results : {"none"}, id : {"a1"},
   published_utc : {IsoText(T1)}, missing : {"none"}]
  \cup
  [kind : {"http"}, status : {200}, results : {"empty"}, id : {"a1"},
   published_utc : {IsoText(T1)}, missing : {"none", "results"}]
  \cup
  [kind : {"http"}, status : {200}, results : {"one"}, id : Ids,
   published_utc : {IsoText(ts) : ts \in Timestamps}, missing : {"none"}]
  \cup
  [kind : {"http"}, status : {200}, results : {"one"}, id : {"a1"},
   published_utc : {IsoText(T1)}, missing : ArticleDefects]

\* what requests.get(article_url) may give back
ScrapeOutcomes == {"ok", "empty", "status", "exception"}

\* what blob.upload_from_string may do
UploadOutcomes == {"ok", "failed"}

\* get_article_content: the joined paragraphs, "" without paragraphs, None on failure
get_article_content(scr) ==
  CASE scr = "ok"    -> "body"
    [] scr = "empty" -> ""
    [] OTHER         -> None

Truthy(content) == content # None /\ content # ""

Title(id) == <<"title", id>>
Description(id) == <<"description", id>>

folder_name(ticker, published_utc) ==
  LET published_datetime == strptime(published_utc)
  IN  <<ticker, Pad(published_datetime.Y, 4),
        <<"Month=", Pad(published_datetime.Mo, 2)>>,
        <<"Day=", Pad(published_datetime.D, 2)>>,
        <<"Hour=", Pad(published_datetime.H, 2)>>,
        <<"Minute=", Pad(published_datetime.Mi, 2)>>>>

filename(ticker, published_utc) ==
  <<ticker, "_", Pad(strptime(published_utc).S, 2), ".json">>

article_data(ticker, resp, content) ==
  PyDict([k \in {"ticker", "title", "summary", "content", "published_utc"} |->
            CASE k = "ticker"  -> PyStr(ticker)
              [] k = "title"   -> PyStr(Title(resp.id))
              [] k = "summary" -> PyStr(Description(resp.id))
              [] k = "content" -> PyStr(content)
              [] OTHER         -> PyStr(resp.published_utc)])

\* a writer that leaves an object that exists alone
upload_if_absent(b, data, folder, file) ==
  IF Append(folder, file) \in DOMAIN b THEN b
  ELSE Put(b, Append(folder, file),
           [data |-> dumps(data).v, content_type |-> "application/json"])

\* upload_to_gcs: the blob written at folder_name/filename
upload_to_gcs(b, data, folder, file) ==
  Put(b, Append(folder, file),
      [data |-> dumps(data).v, content_type |-> "application/json"])

NoObs == [ticker |-> None, kind |-> "none", id |-> None, prev |-> None,
          scrape |-> "none", upload |-> "none", logs |-> {}, path |-> <<>>,
          record |-> PyNone, overwrote |-> "none", raised |-> "none"]

\* a gate that never recognises an article
IsDuplicateNever(last, ticker, article_id) == FALSE

\* last_fetched_ids.get(ticker) == article_id
IsDuplicate(last, ticker, article_id) == last[ticker] = article_id

\* a gate that forgets to record the article
RememberNothing(last, ticker, article_id) == last

\* last_fetched_ids[ticker] = article_id
Remember(last, ticker, article_id) == [last EXCEPT ![ticker] = article_id]

\* a gate that forgets the id of an article whose content did not come
GateRolledBack(before, after) == before

\* last_fetched_ids when the scrape gave no content: the else branch logs and
\* leaves the id recorded before the scrape in place
GateWithoutContent(before, after) == after

\* The body of the loop over batch_tickers for one ticker: the new values of
\* last_fetched_ids and bucket, whether an exception escaped, and what was seen.
Handle(ticker, resp, scr, up, last, bkt) ==
  LET base == [NoObs EXCEPT !.ticker = ticker]
      out(l, b, crashed, o) == [last |-> l, bucket |-> b, crashed |-> crashed, obs |-> o]
  IN
  IF resp.kind = "exception"
  THEN out(last, bkt, TRUE, [base EXCEPT !.kind = "exception", !.raised = "RequestException"])
  ELSE IF resp.status # 200
  THEN out(last, bkt, FALSE, [base EXCEPT !.kind = "status", !.logs = {"news_error"}])
  ELSE IF resp.missing = "results"
  THEN out(last, bkt, TRUE, [base EXCEPT !.kind = "keyerror", !.raised = "KeyError"])
  ELSE IF resp.results = "empty"
  THEN out(last, bkt, FALSE, [base EXCEPT !.kind = "empty"])
  ELSE IF resp.missing = "id"
  THEN out(last, bkt, TRUE, [base EXCEPT !.kind = "keyerror", !.raised = "KeyError"])
  ELSE
  LET seenObs == [base EXCEPT !.id = resp.id, !.prev = seen[ticker]] IN
  IF IsDuplicate(last, ticker, resp.id)
  THEN out(last, bkt, FALSE, [seenObs EXCEPT !.kind = "duplicate", !.logs = {"skipping"}])
  ELSE
  LET last2 == Remember(last, ticker, resp.id)
      newObs == [seenObs EXCEPT !.kind = "new"]
  IN
  IF resp.missing = "article_url"
  THEN out(last2, bkt, TRUE, [newObs EXCEPT !.raised = "KeyError"])
  ELSE
  LET content == get_article_content(scr)
      scraped == [newObs EXCEPT !.scrape = scr,
                    !.logs = IF scr \in {"status", "exception"}
                             THEN {"fetching", "scrape_error"} ELSE {"fetching"}]
  IN
  IF ~Truthy(content)
  THEN out(GateWithoutContent(last, last2), bkt, FALSE, scraped)
  ELSE IF resp.missing \in {"published_utc", "published_format", "title", "description"}
  THEN out(last2, bkt, TRUE,
           [scraped EXCEPT !.raised = IF resp.missing = "published_format"
                                      THEN "ValueError" ELSE "KeyError"])
  ELSE
  LET folder == folder_name(ticker, resp.published_utc)
      file == filename(ticker, resp.published_utc)
      data == article_data(ticker, resp, content)
      tried == [scraped EXCEPT !.path = Append(folder, file), !.record = data]
  IN
  IF up = "failed"
  THEN out(last2, bkt, TRUE, [tried EXCEPT !.upload = "failed", !.raised = "GoogleCloudError"])
  ELSE out(last2, upload_to_gcs(bkt, data, folder, file), FALSE,
           [tried EXCEPT !.upload = "ok", !.logs = @ \cup {"uploaded", "stored"}])

\* a slice that is one ticker too long
batch_tickers_long == SubSeq(tickers, i + 1, Min(i + batch_size + 1, Len(tickers)))

\* tickers[i:i + batch_size]
batch_tickers == SubSeq(tickers, i + 1, Min(i + batch_size, Len(tickers)))

\* the news API answered with a complete article and its page gave paragraphs
GaveContent(resp, scr) ==
  /\ resp.kind = "http" /\ resp.status = 200 /\ resp.results = "one"
  /\ resp.missing = "none" /\ scr = "ok"

GateEmpty == \A s \in TickerSet : last_fetched_ids[s] = None

\* the upstream behaving as usual: the same article as before, every call succeeding
Nominal(resp, o) ==
  /\ resp.kind = "http" /\ resp.status = 200 /\ resp.results = "one"
  /\ resp.id = "a1" /\ resp.published_utc = IsoText(T1) /\ resp.missing = "none"
  /\ o.scrape \in {"none", "ok"} /\ o.upload \in {"none", "ok"}

\* while True: fetch_and_store_news() is entered, the first batch begins
StartPass ==
  /\ pc = "Idle"
  /\ pc' = "BatchInProgress"
  /\ i' = 0 /\ t' = 0
  /\ sleepFor' = 0
  /\ batchReqs' = 0 /\ batchScrapes' = 0 /\ batchWrites' = 0 /\ batchOk' = 0
  /\ batchFromEmpty' = GateEmpty
  /\ requested' = <<>>
  /\ UNCHANGED <<last_fetched_ids, bucket, obs, seen, faults, writes, stockVars, aggVars, webVars>>

\* one iteration of "for ticker in batch_tickers"
ProcessTicker ==
  /\ pc = "BatchInProgress"
  /\ t < Len(batch_tickers)
  /\ \E resp \in NewsResponses, scr \in ScrapeOutcomes, up \in UploadOutcomes :
       LET ticker == batch_tickers[t + 1]
           r == Handle(ticker, resp, scr, up, last_fetched_ids, bucket)
           dev == IF Nominal(resp, r.obs) THEN 0 ELSE 1
       IN  /\ faults + dev <= MaxFaults
           /\ faults' = faults + dev
           /\ last_fetched_ids' = r.last
           /\ bucket' = r.bucket
           /\ obs' = [r.obs EXCEPT !.overwrote =
                         IF r.obs.upload # "ok" \/ r.obs.path \notin DOMAIN bucket THEN "none"
                         ELSE IF bucket[r.obs.path] = r.bucket[r.obs.path] THEN "same"
                         ELSE "different"]
           /\ seen' = IF r.obs.kind \in {"duplicate", "new"}
                      THEN [seen EXCEPT ![ticker] = r.obs.id] ELSE seen
           /\ batchReqs' = batchReqs + 1
           /\ requested' = Append(requested, ticker)
           /\ batchScrapes' = batchScrapes + (IF r.obs.scrape # "none" THEN 1 ELSE 0)
           /\ batchWrites' = batchWrites + (IF r.obs.upload # "none" THEN 1 ELSE 0)
           /\ batchOk' = batchOk + (IF GaveContent(resp, scr) THEN 1 ELSE 0)
           /\ writes' = IF r.obs.upload = "none" THEN writes
                        ELSE writes \cup {[script |-> "news", source |-> ticker,
                                            ts |-> strptime(resp.published_utc),
                                            folder |-> SubSeq(r.obs.path, 1, Len(r.obs.path) - 1)]}
           /\ pc' = IF r.crashed THEN "Crashed" ELSE pc
           /\ t' = IF r.crashed THEN t ELSE t + 1
  /\ UNCHANGED <<i, sleepFor, batchFromEmpty, stockVars, aggVars, webVars>>

\* the batch is done: time.sleep(60) begins
EndBatch ==
  /\ pc = "BatchInProgress"
  /\ t = Len(batch_tickers)
  /\ pc' = "Cooldown"
  /\ sleepFor' = CooldownSeconds
  /\ UNCHANGED <<i, t, last_fetched_ids, bucket, obs, seen, batchReqs, batchScrapes,
                 batchWrites, batchOk, batchFromEmpty, faults, requested, writes, stockVars, aggVars, webVars>>

\* time.sleep(60) returns: the next batch, or the function returns and
\* time.sleep(86400) begins
CooldownElapsed ==
  /\ pc = "Cooldown"
  /\ IF i + batch_size < Len(tickers)
     THEN /\ pc' = "BatchInProgress"
          /\ i' = i + batch_size
          /\ t' = 0
          /\ sleepFor' = 0
          /\ batchReqs' = 0 /\ batchScrapes' = 0 /\ batchWrites' = 0 /\ batchOk' = 0
          /\ batchFromEmpty' = GateEmpty
     ELSE /\ pc' = "LongSleep"
          /\ sleepFor' = CycleSeconds
          /\ UNCHANGED <<i, t, batchReqs, batchScrapes, batchWrites, batchOk, batchFromEmpty>>
  /\ UNCHANGED <<last_fetched_ids, bucket, obs, seen, faults, requested, writes, stockVars, aggVars, webVars>>

\* time.sleep(86400) returns: back to the top of while True
LongSleepElapsed ==
  /\ pc = "LongSleep"
  /\ pc' = "Idle"
  /\ sleepFor' = 0
  /\ UNCHANGED <<i, t, last_fetched_ids, bucket, obs, seen, batchReqs, batchScrapes,
                 batchWrites, batchOk, batchFromEmpty, faults, requested, writes, stockVars, aggVars, webVars>>

(***************************************************************************)
(* fetch_stock_data.py                                                     *)
(***************************************************************************)
\* how many tickers of sp500_tickers the model walks
NumStockTickers == 2
\* how many times the script is started
MaxRuns == 2

sp500_tickers == SubSeq(TickerList, 1, Min(NumStockTickers, Len(TickerList)))

D1 == [Y |-> 2024, Mo |-> 10, D |-> 1]
D2 == [Y |-> 2024, Mo |-> 10, D |-> 2]
Dates == <<D1, D2>>

\* a value that is no str, int, float, bool or None (a numpy.int64, a Timestamp)
PyObj(x) == [t |-> "obj", v |-> x]

\* row.to_dict() of the bar of a date
RowDict(date) ==
  IF date = D1
  THEN [k \in {"Close", "Volume"} |-> IF k = "Close" THEN PyNum(101) ELSE PyNum(5000)]
  ELSE [k \in {"Close", "Volume"} |-> IF k = "Close" THEN PyNum(102) ELSE PyObj(7000)]

\* the frames yf.download may return: the bars of some of the dates, in date order
DataFrames ==
  {<<>>} \cup {<<Dates[n]>> : n \in 1..Len(Dates)}
         \cup {<<Dates[q[1]], Dates[q[2]]>> :
                 q \in {r \in (1..Len(Dates)) \X (1..Len(Dates)) : r[1] < r[2]}}

\* date.strftime("%Y-%m-%d")
DateText(date) == <<Pad(date.Y, 4), Pad(date.Mo, 2), Pad(date.D, 2)>>

\* every value that is not serializable is replaced by its str()
Serializable(d) ==
  [k \in DOMAIN d |->
     IF d[k].t \in {"str", "num", "bool", "none"} THEN d[k] ELSE PyStr(<<"str", d[k].v>>)]

\* day_data: the row as a dictionary with its date, made serializable
day_data(date) ==
  LET row == RowDict(date)
      withDate == [k \in DOMAIN row \cup {"Date"} |->
                     IF k = "Date" THEN PyStr(DateText(date)) ELSE row[k]]
  IN  PyDict(Serializable(withDate))

\* datetime.now() fields
Hour(w) == (w \div 3600) % 24
Minute(w) == (w \div 60) % 60
Second(w) == w % 60

stock_folder_name(ticker, date, now) ==
  <<"historical", ticker, Pad(date.Y, 4),
    <<"Month=", Pad(date.Mo, 2)>>,
    <<"Day=", Pad(date.D, 2)>>,
    <<"Hour=", Pad(Hour(now), 2)>>,
    <<"Minute=", Pad(Minute(now), 2)>>>>

stock_filename(ticker, now) == <<ticker, "_", Pad(Second(now), 2), ".json">>

\* upload_to_gcs of fetch_stock_data.py: json.dumps of what it is given
stock_upload_to_gcs(b, data, folder, file) ==
  Put(b, Append(folder, file),
      [data |-> dumps(data).v, content_type |-> "application/json"])

StartWall == 9 * 3600 + 5 * 60 + 58
RerunDelay == 3600 + 17

NoStockObs == [ticker |-> None, date |-> D1, path |-> <<>>, record |-> PyNone,
               upload |-> "none"]

\* fetch_historical_data(ticker) up to the loop over the rows
StockFetch ==
  /\ spc = "fetch"
  /\ \E data \in DataFrames :
       /\ rows' = data
       /\ spc' = IF data = <<>> THEN "sleep" ELSE "rows"
  /\ UNCHANGED <<sidx, stock_bucket, wall, runs, sobs, writes, newsVars, aggVars, webVars>>

\* one iteration of "for date, row in data.iterrows()"
StockRow ==
  /\ spc = "rows"
  /\ rows # <<>>
  /\ \E up \in UploadOutcomes :
       LET ticker == sp500_tickers[sidx]
           date == Head(rows)
           now == wall
           record == day_data(date)
           day_json == dumps(record)
           folder == stock_folder_name(ticker, date, now)
           file == stock_filename(ticker, now)
       IN  /\ sobs' = [ticker |-> ticker, date |-> date, path |-> Append(folder, file),
                       record |-> record, upload |-> up]
           /\ writes' = writes \cup {[script |-> "stock", source |-> ticker,
                                      ts |-> [Y |-> date.Y, Mo |-> date.Mo, D |-> date.D,
                                              H |-> 0, Mi |-> 0, S |-> 0],
                                      folder |-> folder]}
           /\ IF up = "ok"
              THEN /\ stock_bucket' = stock_upload_to_gcs(stock_bucket, day_json, folder, file)
                   /\ rows' = Tail(rows)
                   /\ spc' = IF Tail(rows) = <<>> THEN "sleep" ELSE "rows"
              ELSE /\ spc' = "crashed"
                   /\ UNCHANGED <<stock_bucket, rows>>
  /\ wall' = (wall + 1) % 86400
  /\ UNCHANGED <<sidx, runs, newsVars, aggVars, webVars>>

\* time.sleep(2), then the next ticker or the end of store_data_to_gcs
StockSleep ==
  /\ spc = "sleep"
  /\ wall' = (wall + 2) % 86400
  /\ IF sidx < Len(sp500_tickers)
     THEN sidx' = sidx + 1 /\ spc' = "fetch"
     ELSE sidx' = sidx /\ spc' = "done"
  /\ UNCHANGED <<rows, stock_bucket, runs, sobs, writes, newsVars, aggVars, webVars>>

\* the script is started again later
StockRunAgain ==
  /\ spc = "done"
  /\ runs < MaxRuns
  /\ runs' = runs + 1
  /\ sidx' = 1
  /\ spc' = "fetch"
  /\ wall' = (wall + RerunDelay) % 86400
  /\ UNCHANGED <<rows, stock_bucket, sobs, writes, newsVars, aggVars, webVars>>

StockNext ==
  \/ StockFetch
  \/ StockRow
  \/ StockSleep
  \/ StockRunAgain

(***************************************************************************)
(* stock_prices_transformed_cloud_function.py                              *)
(***************************************************************************)
\* how many requests the function receives
MaxRequests == 2

\* a parameter of the request: its Python type and its value (the digits of a
\* numeric string, the number of an int)
Absent == [kind |-> "absent", v |-> <<>>]
PyList(l) == [kind |-> "list", v |-> l]
PyInt(n) == [kind |-> "int", v |-> <<n>>]
PyDigits(n) == [kind |-> "str", v |-> n]

\* the requests the function may receive: a JSON body with or without each of
\* the three parameters, or no JSON body at all
Requests ==
  [json : {TRUE},
   tickers : {Absent, PyList(<<>>), PyList(<<"AAPL">>), PyList(<<"AAPL", "MSFT">>)},
   year : {Absent, PyInt(0), PyInt(2024), PyDigits(<<2, 0, 2, 4>>), PyDigits(<<>>)},
   months : {Absent, PyList(<<>>), PyList(<<10>>), PyList(<<10, 11>>), PyInt(10)}]
  \cup
  [json : {FALSE}, tickers : {Absent}, year : {Absent}, months : {Absent}]

NoRequest == [json |-> FALSE, tickers |-> Absent, year |-> Absent, months |-> Absent]
NoResponse == [status |-> 0, body |-> None]

\* request_json.get(key, [])
GetList(param) == IF param.kind = "absent" THEN PyList(<<>>) ELSE param

\* whether int(x) raises
IntRaises(param) == param.kind = "absent" \/ (param.kind = "str" /\ param.v = <<>>)

\* int(x), when it does not raise
IntOf(param) == IF param.kind = "int" THEN param.v[1] ELSE Num(param.v)

\* Python's "not x" of a list or an int
Falsy(param) ==
  \/ param.kind = "list" /\ param.v = <<>>
  \/ param.kind = "int" /\ param.v = <<0>>

\* the rows of the preprocessed parquet files; DailyReturn in units of 1e-7
R1 == [Date |-> D1, High |-> 105, Low |-> 99, Close |-> 101, Open |-> 100,
       Volume |-> 5000, DailyReturn |-> 234560, complete |-> TRUE]
R2 == [Date |-> D2, High |-> 106, Low |-> 100, Close |-> 102, Open |-> 101,
       Volume |-> 7000, DailyReturn |-> 99015, complete |-> TRUE]
R3 == [Date |-> D2, High |-> 106, Low |-> 100, Close |-> 102, Open |-> 101,
       Volume |-> 7000, DailyReturn |-> 0, complete |-> FALSE]

Blob(ext, rs) == [ext |-> ext, rows |-> rs]

\* what list_blobs(prefix) may return for one (ticker, year, month)
Listings ==
  { <<>>,
    <<Blob("other", <<>>)>>,
    <<Blob("parquet", <<>>)>>,
    <<Blob("other", <<>>), Blob("parquet", <<R1>>)>>,
    <<Blob("parquet", <<R1>>), Blob("parquet", <<R2>>)>>,
    <<Blob("parquet", <<R3>>)>> }

\* which call of the partition raises, if any
AggFailures == {"none", "list", "download", "upload"}

IsParquet(blob) == blob.ext = "parquet"

\* list_parquet_files_for_month: the listed names that end with .parquet
list_parquet_files_for_month(listing) == SelectSeq(listing, IsParquet)

\* load_parquet_from_gcs: the rows of the files, concatenated in listing order
RECURSIVE load_parquet_from_gcs(_)
load_parquet_from_gcs(parquet_files) ==
  IF parquet_files = <<>> THEN <<>>
  ELSE Head(parquet_files).rows \o load_parquet_from_gcs(Tail(parquet_files))

\* "{x:.6f}" of a value given in units of 1e-7: rounded half to even
Format6(x) ==
  LET q == x \div 10
      r == x % 10
      u == IF r > 5 \/ (r = 5 /\ q % 2 = 1) THEN q + 1 ELSE q
  IN  <<u \div Pow10(6), ".", Pad(u % Pow10(6), 6)>>

TextLine(row, company_name) ==
  <<"On", DateText(row.Date), company_name, row.High, row.Low, row.Close,
    row.Open, row.Volume, Format6(row.DailyReturn)>>

\* generate_text_from_dataframe: one line per row, joined by newlines
generate_text_from_dataframe(df, company_name) ==
  [n \in 1..Len(df) |-> TextLine(df[n], company_name)]

text_path(ticker, year, month) ==
  <<ticker, <<"year=", year>>, <<"month=", Pad(month, 2)>>,
    <<ticker, "_", year, Pad(month, 2), ".txt">>>>

\* a writer that adds the text to the text already there
save_text_append(b, text, ticker, year, month) ==
  LET path == text_path(ticker, year, month) IN
  Put(b, path, [text |-> IF path \in DOMAIN b THEN b[path].text \o text ELSE text])

\* save_text_to_gcs: the text uploaded at folder_name/filename
save_text_to_gcs(b, text, ticker, year, month) ==
  Put(b, text_path(ticker, year, month), [text |-> text])

NoAggObs == [ticker |-> None, month |-> 0, files |-> 0, df |-> <<>>,
             save |-> "none", raised |-> FALSE]

\* The body of the loop over tickers and months for one partition.
Partition(ticker, year, month, listing, fail, tb) ==
  LET base == [NoAggObs EXCEPT !.ticker = ticker, !.month = month]
      out(b, o, nl, nd, ns) == [bucket |-> b, obs |-> o, listed |-> nl, loaded |-> nd, saved |-> ns]
  IN
  IF fail = "list"
  THEN out(tb, [base EXCEPT !.raised = TRUE], 1, 0, 0)
  ELSE
  LET parquet_files == list_parquet_files_for_month(listing)
      listed == [base EXCEPT !.files = Len(parquet_files)]
  IN
  IF parquet_files = <<>>
  THEN out(tb, listed, 1, 0, 0)
  ELSE IF fail = "download"
  THEN out(tb, [listed EXCEPT !.raised = TRUE], 1, 1, 0)
  ELSE
  LET df == load_parquet_from_gcs(parquet_files)
      loaded == [listed EXCEPT !.df = df]
  IN
  IF \E n \in 1..Len(df) : ~df[n].complete
  THEN out(tb, [loaded EXCEPT !.raised = TRUE], 1, Len(parquet_files), 0)
  ELSE
  LET text_summary == generate_text_from_dataframe(df, ticker) IN
  IF fail = "upload"
  THEN out(tb, [loaded EXCEPT !.save = "failed", !.raised = TRUE], 1, Len(parquet_files), 1)
  ELSE out(save_text_to_gcs(tb, text_summary, ticker, year, month),
           [loaded EXCEPT !.save = "ok"], 1, Len(parquet_files), 1)

\* process_request up to the loop: parsing and checking the parameters
AggReceive ==
  /\ apc \in {"idle", "done"}
  /\ handled < MaxRequests
  /\ handled' = handled + 1
  /\ \E req \in Requests :
       /\ request' = req
       /\ IF ~req.json \/ IntRaises(req.year)
          THEN /\ response' = [status |-> 500, body |-> "Error processing request"]
               /\ apc' = "done"
          ELSE IF Falsy(GetList(req.tickers)) \/ IntOf(req.year) = 0
                  \/ Falsy(GetList(req.months))
          THEN /\ response' = [status |-> 400, body |-> "Missing required parameters"]
               /\ apc' = "done"
          ELSE IF GetList(req.months).kind # "list"
          THEN /\ response' = [status |-> 400, body |-> "'months' parameter must be a list"]
               /\ apc' = "done"
          ELSE /\ response' = NoResponse
               /\ apc' = "loop"
  /\ ati' = 1 /\ ami' = 1
  /\ aobs' = NoAggObs
  /\ listings' = 0 /\ loads_' = 0 /\ saves' = 0
  /\ UNCHANGED <<transformed_bucket, exported, writes, newsVars, stockVars, webVars>>

\* one iteration of "for month in months" of one ticker
AggPartition ==
  /\ apc = "loop"
  /\ ati <= Len(request.tickers.v)
  /\ \E listing \in Listings, fail \in AggFailures :
       LET r == Partition(request.tickers.v[ati], IntOf(request.year),
                          request.months.v[ami], listing, fail, transformed_bucket)
           lastMonth == ami = Len(request.months.v)
       IN  /\ transformed_bucket' = r.bucket
           /\ aobs' = r.obs
           /\ listings' = listings + r.listed
           /\ loads_' = loads_ + r.loaded
           /\ saves' = saves + r.saved
           /\ IF r.obs.raised
              THEN /\ response' = [status |-> 500, body |-> "Error processing request"]
                   /\ apc' = "done"
                   /\ UNCHANGED <<ati, ami>>
              ELSE /\ ami' = IF lastMonth THEN 1 ELSE ami + 1
                   /\ ati' = IF lastMonth THEN ati + 1 ELSE ati
                   /\ UNCHANGED <<apc, response>>
  /\ exported' = IF aobs'.save = "ok"
                  THEN Put(exported, text_path(aobs'.ticker, IntOf(request.year), aobs'.month),
                           aobs'.df)
                  ELSE exported
  /\ UNCHANGED <<request, handled, writes, newsVars, stockVars, webVars>>

\* the loops are over: "Processing complete"
AggFinish ==
  /\ apc = "loop"
  /\ ati > Len(request.tickers.v)
  /\ response' = [status |-> 200, body |-> "Processing complete"]
  /\ apc' = "done"
  /\ UNCHANGED <<request, handled, ati, ami, transformed_bucket, aobs, listings, loads_, saves,
                 exported,
                 writes, newsVars, stockVars, webVars>>

AggNext ==
  \/ AggReceive
  \/ AggPartition
  \/ AggFinish

(***************************************************************************)
(* Flask_Server.py: the feedback counter, and the UI's update_counter       *)
(***************************************************************************)

\* how many calls of /increment_counter or update_counter a run makes
MaxCalls == 2

\* Python's None as a value of the database, the environment or a JSON body
PyNull == [kind |-> "none", v |-> <<>>]

\* what the database node may hold when the server starts
CountSeeds == {Absent, PyInt(0), PyInt(2), PyDigits(<<2>>)}
CounterSeeds == {Absent, PyInt(7)}

\* os.getenv gives a string, or None when the variable is not set
ThresholdSettings == {PyNull, PyDigits(<<1>>), PyDigits(<<2>>)}

NoRef == [count |-> Absent, counter |-> Absent]

\* the JSON bodies a client may post: {} or {"increment_by": x}
Increments == {Absent, PyInt(0 - 1), PyInt(0), PyInt(1), PyInt(2), PyDigits(<<1>>)}

HookOutcomes == {"200", "500", "exception"}
DbFailures == {"none", "get_count", "update", "get_counter"}

\* ref.child(key).get(): None for a key that is not there
Get(node, key) == IF node[key].kind = "absent" THEN PyNull ELSE node[key]

\* "x or 0"
OrZero(x) ==
  IF x.kind = "none" \/ x = PyInt(0) \/ (x.kind = "str" /\ x.v = <<>>) THEN PyInt(0) ELSE x

\* a + b raises TypeError unless both are numbers or both are strings
AddRaises(a, b) == ~(a.kind = b.kind /\ a.kind \in {"int", "str"})
Add(a, b) == IF a.kind = "int" THEN PyInt(a.v[1] + b.v[1]) ELSE PyDigits(a.v \o b.v)

RECURSIVE TextGreater(_, _)
TextGreater(a, b) ==
  IF a = <<>> THEN FALSE
  ELSE IF b = <<>> THEN TRUE
  ELSE IF Head(a) # Head(b) THEN Head(a) > Head(b)
  ELSE TextGreater(Tail(a), Tail(b))

\* a > b raises TypeError unless both are numbers or both are strings
GreaterRaises(a, b) == ~(a.kind = b.kind /\ a.kind \in {"int", "str"})
Greater(a, b) == IF a.kind = "int" THEN a.v[1] > b.v[1] ELSE TextGreater(a.v, b.v)

\* send_direct_slack_message: one requests.post, whatever comes back is printed
send_direct_slack_message(hook) ==
  [posts |-> 1,
   printed |-> CASE hook = "200" -> "Message sent successfully!"
                 [] hook = "500" -> "Failed to send message"
                 [] OTHER        -> "Error sending message"]

NotComputed == [kind |-> "notcomputed", v |-> <<>>]

\* update_alert_counter: the node afterwards, the posts made, the value computed
update_alert_counter(increment_factor, node, limit, hook, dbfail) ==
  LET failed(nc, posts) == [node |-> node, posts |-> posts, new_count |-> nc,
                            logs |-> {"Error updating counter"}]
      current_count == OrZero(Get(node, "count"))
  IN
  IF dbfail = "get_count" THEN failed(NotComputed, 0)
  ELSE IF AddRaises(current_count, increment_factor) THEN failed(NotComputed, 0)
  ELSE LET new_count == Add(current_count, increment_factor) IN
  IF GreaterRaises(new_count, limit) THEN failed(new_count, 0)
  ELSE LET posts == IF Greater(new_count, limit)
                    THEN send_direct_slack_message(hook).posts ELSE 0 IN
  IF dbfail = "update" THEN failed(new_count, posts)
  ELSE [node |-> [node EXCEPT !.count = new_count], posts |-> posts,
        new_count |-> new_count, logs |-> {}]

NoJson == [k \in {} |-> PyNull]

\* increment_counter: the response, with what update_alert_counter did
increment_counter(body, node, limit, hook, dbfail) ==
  LET increment_factor == IF body.kind = "absent" THEN PyInt(0) ELSE body
      u == update_alert_counter(increment_factor, node, limit, hook, dbfail)
  IN  [node |-> u.node, posts |-> u.posts, new_count |-> u.new_count, logs |-> u.logs,
       body |-> body, increment_factor |-> increment_factor, before |-> Get(node, "count"),
       dbfail |-> dbfail,
       status |-> IF dbfail = "get_counter" THEN 500 ELSE 200,
       json |-> IF dbfail = "get_counter" THEN NoJson
                ELSE [k \in {"counter"} |-> Get(u.node, "counter")]]

NoCounterObs ==
  [node |-> NoRef, posts |-> 0, new_count |-> NotComputed, logs |-> {}, body |-> Absent,
   increment_factor |-> PyInt(0), before |-> PyNull, dbfail |-> "none", status |-> 0,
   json |-> NoJson]

\* the names bound at module level of Chatbot_UI.py when a function runs
Globals == {"st", "requests", "query_flask_app", "update_counter", "main"}

\* update_counter once requests.post has returned
update_counter_response(status, json) ==
  IF status = 200
  THEN IF "count" \in DOMAIN json THEN json["count"] ELSE PyNull
  ELSE PyNull

NoReturn == [called |-> FALSE, inc_factor |-> 0, posted |-> FALSE, value |-> PyNull,
             errors |-> {}]

\* update_counter: what it returns, and whether a request left the client
update_counter(inc_factor, node, limit, hook, dbfail) ==
  IF "os" \notin Globals
  THEN [node |-> node, server |-> NoCounterObs,
        ret |-> [called |-> TRUE, inc_factor |-> inc_factor, posted |-> FALSE,
                 value |-> PyNull, errors |-> {"An error occurred"}]]
  ELSE LET r == increment_counter(PyInt(inc_factor), node, limit, hook, dbfail) IN
       [node |-> r.node, server |-> r,
        ret |-> [called |-> TRUE, inc_factor |-> inc_factor, posted |-> TRUE,
                 value |-> update_counter_response(r.status, r.json),
                 errors |-> IF r.status = 200 /\ "count" \in DOMAIN r.json THEN {}
                            ELSE {"Unexpected response"}]]

\* before_first_request: the server comes up over the database as it is
BeforeFirstRequest ==
  /\ cpc = "down"
  /\ cpc' = "up"
  /\ \E c \in CountSeeds, k \in CounterSeeds : ref' = [count |-> c, counter |-> k]
  /\ threshold' \in ThresholdSettings
  /\ UNCHANGED <<cobs, uret, calls, uiVars, writes, newsVars, stockVars, aggVars>>

\* a client posts to /increment_counter
IncrementCounter ==
  /\ cpc = "up"
  /\ calls < MaxCalls
  /\ calls' = calls + 1
  /\ \E body \in Increments, hook \in HookOutcomes, dbfail \in DbFailures :
       LET r == increment_counter(body, ref, threshold, hook, dbfail) IN
       /\ ref' = r.node
       /\ cobs' = r
  /\ UNCHANGED <<cpc, threshold, uret, uiVars, writes, newsVars, stockVars, aggVars>>

\* the UI calls update_counter
UpdateCounter ==
  /\ cpc = "up"
  /\ calls < MaxCalls
  /\ calls' = calls + 1
  /\ \E inc_factor \in {0 - 1, 1}, hook \in HookOutcomes, dbfail \in DbFailures :
       LET r == update_counter(inc_factor, ref, threshold, hook, dbfail) IN
       /\ ref' = r.node
       /\ cobs' = IF r.ret.posted THEN r.server ELSE cobs
       /\ uret' = r.ret
  /\ UNCHANGED <<cpc, threshold, uiVars, writes, newsVars, stockVars, aggVars>>

CounterNext ==
  \/ BeforeFirstRequest
  \/ IncrementCounter
  \/ UpdateCounter

(***************************************************************************)
(* Chatbot_UI.py: the Streamlit page                                       *)
(***************************************************************************)

\* how many interactions (loads, edits, clicks) a session makes
MaxInteractions == 10

\* what the user may type in the text box
Queries == {"", "q1", "q2"}

\* what POST /predict may give back to the UI
PredictReplies == {"answer", "no_answer", "status", "exception"}

\* query_flask_app: the text that main() writes as the response
query_flask_app(prompt, reply) ==
  IF "os" \notin Globals THEN "Yikes! Something went wrong while contacting the server."
  ELSE CASE reply = "answer"    -> <<"answer to", prompt>>
         [] reply = "no_answer" -> "Oops! I got an unexpected response from the server."
         [] reply = "status"    -> "Hmm, the server seems to be snoozing. Try again later!"
         [] OTHER               -> "Yikes! Something went wrong while contacting the server."

\* st.button(label): true only in the run that the click on it triggered
Button(label, trigger) == trigger = label

\* one run of main(): the page kept in the session, the buttons and the
\* response drawn, and the inc_factor of every update_counter call
main(trigger, pg, text, reply) ==
  LET p == IF pg = "unset" THEN "home" ELSE pg
      run(np, buttons, box, resp, called) ==
        [page |-> np, shown |-> buttons, textbox |-> box, answer |-> resp, calls |-> called]
  IN
  IF p = "home"
  THEN run(IF Button("Try Me", trigger) THEN "chatbot" ELSE p, {"Try Me"}, FALSE, None, <<>>)
  ELSE IF p = "chatbot"
  THEN IF Button("Send", trigger)
       THEN IF text # ""
            THEN LET written == query_flask_app(text, reply)
                     thumbs_up_button == Button("Thumbs Up", trigger)
                     thumbs_down_button == Button("Thumbs Down", trigger)
                 IN  run(p, {"Send", "Thumbs Up", "Thumbs Down"}, TRUE, written,
                         (IF thumbs_up_button THEN <<1>> ELSE <<>>)
                           \o (IF thumbs_down_button THEN <<0 - 1>> ELSE <<>>))
            ELSE run(p, {"Send"}, TRUE, None, <<>>)
       ELSE run(p, {"Send"}, TRUE, None, <<>>)
  ELSE run(p, {}, FALSE, None, <<>>)

\* a run of main() that has not happened
NoRun == [trigger |-> "none", answered |-> FALSE, raised |-> FALSE]

\* the script is started by "streamlit run" (__name__ is "__main__") or main()
\* is called from a module that imported it; nothing has run yet
OpenUI ==
  /\ upc = "closed"
  /\ upc' \in {"script", "module"}
  /\ UNCHANGED <<page, user_input, shown, answer, feedback, uobs, interactions,
                 counterVars, writes, newsVars, stockVars, aggVars>>

\* the interactions the browser offers: a reload, an edit of the text box,
\* a click on a button that the last run drew
Triggers == {"reload"} \cup shown \cup (IF "Send" \in shown THEN {"edit"} ELSE {})

\* one interaction and the rerun it triggers
Rerun ==
  /\ upc # "closed"
  /\ interactions < MaxInteractions
  /\ interactions' = interactions + 1
  /\ \E trigger \in Triggers, text \in Queries, reply \in PredictReplies :
       /\ (trigger = "edit") = (text # user_input)
       /\ user_input' = text
       /\ uobs' = [trigger |-> trigger,
                   answered |-> answer # None, raised |-> upc = "script"]
       /\ IF upc = "script"
          THEN /\ shown' = {} /\ answer' = None
               /\ UNCHANGED <<page, feedback>>
          ELSE LET r == main(trigger, page, text, reply) IN
               /\ page' = r.page
               /\ shown' = r.shown
               /\ answer' = r.answer
               /\ feedback' = feedback \o r.calls
  /\ UNCHANGED <<upc, counterVars, writes, newsVars, stockVars, aggVars>>

UINext ==
  \/ OpenUI
  \/ Rerun

Init ==
  /\ pc = "Idle"
  /\ i = 0 /\ t = 0
  /\ last_fetched_ids = [s \in TickerSet |-> None]
  /\ bucket = EmptyBucket
  /\ sleepFor = 0
  /\ obs = NoObs
  /\ seen = [s \in TickerSet |-> None]
  /\ batchReqs = 0 /\ batchScrapes = 0 /\ batchWrites = 0 /\ batchOk = 0
  /\ batchFromEmpty = TRUE
  /\ faults = 0
  /\ requested = <<>>
  /\ writes = {}
  /\ spc = "fetch" /\ sidx = 1 /\ rows = <<>>
  /\ stock_bucket = EmptyBucket
  /\ wall = StartWall
  /\ runs = 1
  /\ sobs = NoStockObs
  /\ apc = "idle" /\ request = NoRequest /\ ati = 1 /\ ami = 1
  /\ transformed_bucket = EmptyBucket
  /\ response = NoResponse
  /\ aobs = NoAggObs
  /\ listings = 0 /\ loads_ = 0 /\ saves = 0 /\ handled = 0
  /\ exported = EmptyBucket
  /\ cpc = "down" /\ ref = NoRef /\ threshold = PyNull
  /\ cobs = NoCounterObs /\ uret = NoReturn /\ calls = 0
  /\ upc = "closed" /\ page = "unset" /\ user_input = ""
  /\ shown = {} /\ answer = None /\ feedback = <<>>
  /\ uobs = NoRun /\ interactions = 0

Next ==
  \/ StartPass
  \/ ProcessTicker
  \/ EndBatch
  \/ CooldownElapsed
  \/ LongSleepElapsed

Spec == Init /\ [][Next]_vars

StockSpec == Init /\ [][StockNext]_vars

AggSpec == Init /\ [][AggNext]_vars

CounterSpec == Init /\ [][CounterNext]_vars

UISpec == Init /\ [][UINext]_vars


(***************************************************************************)
(* Claims about fetch_news_articles.py                                     *)
(***************************************************************************)

\* C1: the dedup gate treats an observation (ticker, article id) as a duplicate
\* exactly when the previous observation of that ticker had the same id: the
\* first of two equal observations in a row is new, the second is a duplicate,
\* and an observation with another id afterwards is new again.
C1_DedupGate ==
  obs.kind \in {"new", "duplicate"} =>
    /\ obs.prev = obs.id => obs.kind = "duplicate"
    /\ obs.prev # obs.id => obs.kind = "new"
    /\ last_fetched_ids[obs.ticker] = obs.id

\* the same (ticker, id) has been observed twice in a row
C1_Witness ==
  /\ obs.kind = "duplicate"
  /\ obs.prev = obs.id
  /\ obs.id \in Ids

\* a request step whose article id equals the id stored for its ticker
ObservesStoredId ==
  /\ batchReqs' = batchReqs + 1
  /\ obs'.id \in Ids
  /\ last_fetched_ids[obs'.ticker] = obs'.id

\* C2: when the latest upstream article id of a ticker equals the stored id,
\* the pass does nothing more for that ticker: no scrape, no object-store
\* write, last_fetched_ids unchanged, and the loop goes on.
C2_DuplicateNoAction ==
  [][ObservesStoredId =>
        /\ UNCHANGED <<last_fetched_ids, bucket, batchScrapes, batchWrites>>
        /\ obs'.scrape = "none" /\ obs'.upload = "none"
        /\ pc' = "BatchInProgress" /\ t' = t + 1]_vars

\* a ticker whose article is already stored was requested again and skipped
C2_Witness ==
  /\ obs.kind = "duplicate"
  /\ obs.logs = {"skipping"}
  /\ \E p \in DOMAIN bucket : p[1] = obs.ticker

\* C3 as stated: a batch of 5 tickers begun with an empty dedup gate makes
\* exactly 5 write attempts and is followed by the 60-second suspension.
C3_ExactlyFiveWrites ==
  (batchFromEmpty /\ Len(batch_tickers) = 5 /\ t = Len(batch_tickers)) =>
    batchWrites = 5

\* C3 amended: in a batch begun with an empty dedup gate the write attempts
\* are exactly the tickers whose news request returned a complete article and
\* whose scrape returned content (at most 5, 5 when all five did); no more
\* than 5 requests are issued between suspensions and the suspension that
\* follows a batch is of 60 seconds.
C3_WritesPerBatch ==
  /\ batchFromEmpty => batchWrites = batchOk
  /\ batchWrites <= batchReqs
  /\ batchReqs <= batch_size
  /\ pc = "Cooldown" => sleepFor = CooldownSeconds /\ batchReqs = Len(batch_tickers)

\* a batch of 5 tickers, begun with an empty gate, made 5 writes and sleeps 60 s
C3_Witness ==
  /\ pc = "Cooldown"
  /\ batchFromEmpty
  /\ Len(batch_tickers) = 5
  /\ batchWrites = 5
  /\ sleepFor = 60

\* C4: the scheduler only moves Idle -> BatchInProgress -> Cooldown ->
\* (BatchInProgress | LongSleep) -> Idle: a 60-second cooldown follows every
\* batch, the 24-hour sleep is entered only after the last batch, the pass
\* after it starts at the first ticker, and the loop never ends by itself.
C4_StateMachine ==
  [][/\ pc = "Idle" =>
          \/ pc' = "Idle"
          \/ pc' = "BatchInProgress" /\ i' = 0 /\ t' = 0
     /\ pc = "BatchInProgress" =>
          \/ pc' = "BatchInProgress"
          \/ pc' = "Cooldown" /\ t = Len(batch_tickers) /\ sleepFor' = 60
     /\ pc = "Cooldown" =>
          \/ pc' = "Cooldown"
          \/ pc' = "BatchInProgress" /\ i' = i + batch_size /\ i' < Len(tickers)
          \/ pc' = "LongSleep" /\ i + batch_size >= Len(tickers) /\ sleepFor' = 86400
     /\ pc = "LongSleep" => pc' \in {"LongSleep", "Idle"}
     /\ pc' \in {"Idle", "BatchInProgress", "Cooldown", "LongSleep"}]_vars

\* C4 without its last part: the moves of a scheduler that has not ended
SchedulerEdges ==
  [][pc' # "Crashed" =>
     /\ pc = "Idle" =>
          \/ pc' = "Idle"
          \/ pc' = "BatchInProgress" /\ i' = 0 /\ t' = 0
     /\ pc = "BatchInProgress" =>
          \/ pc' = "BatchInProgress"
          \/ pc' = "Cooldown" /\ t = Len(batch_tickers) /\ sleepFor' = 60
     /\ pc = "Cooldown" =>
          \/ pc' = "Cooldown"
          \/ pc' = "BatchInProgress" /\ i' = i + batch_size /\ i' < Len(tickers)
          \/ pc' = "LongSleep" /\ i + batch_size >= Len(tickers) /\ sleepFor' = 86400
     /\ pc = "LongSleep" => pc' \in {"LongSleep", "Idle"}]_vars

\* C5: an upstream-fetch failure of one ticker (non-200 status or network
\* exception, of the news API request or of the article scrape) is logged
\* and only that ticker is skipped: the loop goes on.
C5_FetchFailureSkipped ==
  (obs.kind \in {"exception", "status"} \/ obs.scrape \in {"exception", "status"}) =>
    /\ pc # "Crashed"
    /\ obs.logs \cap {"news_error", "scrape_error"} # {}

\* C6: a failed object-store write is logged, not retried, and the loop goes
\* on with the next ticker.
C6_WriteFailureSkipped ==
  obs.upload = "failed" =>
    /\ pc # "Crashed"
    /\ obs.logs \cap {"upload_error"} # {}
    /\ batchWrites <= batchReqs


(***************************************************************************)
(* Claims about stock_prices_transformed_cloud_function.py                 *)
(***************************************************************************)

\* a request without a JSON body, or whose tickers, year or months is absent or empty
Lacks(req) ==
  \/ ~req.json
  \/ req.tickers.v = <<>>
  \/ req.year.v = <<>>
  \/ req.months.v = <<>>

\* C7: a request that lacks tickers, year or months (absent or empty) is
\* answered with a client error (HTTP 400) and nothing is processed: no
\* listing, no load, no corpus write.
C7_MissingParameters ==
  (apc = "done" /\ Lacks(request)) =>
    /\ response.status = 400
    /\ listings = 0 /\ loads_ = 0 /\ saves = 0

\* C8: no corpus object is written for a (ticker, year, month) whose
\* aggregated dataset is empty, whether no parquet file is listed or the
\* listed files hold no row: an empty text file is never uploaded.
C8_NoEmptyCorpus ==
  /\ \A p \in DOMAIN transformed_bucket : transformed_bucket[p].text # <<>>
  /\ aobs.save = "ok" => aobs.df # <<>>

(***************************************************************************)
(* Claims about both ingestion scripts                                     *)
(***************************************************************************)

\* C9: the folder of a stored record (source / year / Month / Day / Hour /
\* Minute) is a function of the record's own timestamp and source alone: two
\* writes of one script with the same source and record timestamp, made at
\* any two wall-clock times, have the same folder.
C9_PartitionDeterministic ==
  \A w1, w2 \in writes :
    (w1.script = w2.script /\ w1.source = w2.source /\ w1.ts = w2.ts) =>
      w1.folder = w2.folder

\* C10: the payload stored for a record, read back and deserialized once as
\* JSON, is a mapping equal to the record that was written (news article_data
\* and stock day_data).
C10_RoundTrip ==
  /\ obs.upload = "ok" =>
       PyEq(loads(PyStr(bucket[obs.path].data)), obs.record)
  /\ sobs.upload = "ok" =>
       PyEq(loads(PyStr(stock_bucket[sobs.path].data)), sobs.record)


(***************************************************************************)
(* Claims about the object store                                           *)
(***************************************************************************)

\* a step of the news script that wrote an object
NewsWriteStep == batchWrites' = batchWrites + 1 /\ obs'.upload = "ok"

\* a step of the text export that wrote an object
TextWriteStep == saves' = saves + 1 /\ aobs'.save = "ok"

\* C11: a write leaves exactly one object at its path, holding the payload of
\* that write, and touches no other path: records that share ticker,
\* partition key and seconds filename collide on one object (the last write
\* wins, nothing is appended), and writing the payload an object already
\* holds leaves the store as it was.
C11_LastWriteWins ==
  [][/\ NewsWriteStep =>
          /\ DOMAIN bucket' = DOMAIN bucket \cup {obs'.path}
          /\ bucket'[obs'.path].data = JsonText(obs'.record)
          /\ \A p \in DOMAIN bucket : p # obs'.path => bucket'[p] = bucket[p]
          /\ (obs'.path \in DOMAIN bucket /\ bucket[obs'.path].data = JsonText(obs'.record))
               => bucket' = bucket
     /\ TextWriteStep =>
          LET path == text_path(aobs'.ticker, IntOf(request.year), aobs'.month) IN
          /\ DOMAIN transformed_bucket' = DOMAIN transformed_bucket \cup {path}
          /\ transformed_bucket'[path].text = generate_text_from_dataframe(aobs'.df, aobs'.ticker)
          /\ \A p \in DOMAIN transformed_bucket :
               p # path => transformed_bucket'[p] = transformed_bucket[p]]_vars

\* an article was written over the different article stored at the same path
C11_Witness ==
  /\ obs.upload = "ok"
  /\ obs.overwrote = "different"
  /\ bucket[obs.path].data = JsonText(obs.record)

\* an article was written again over itself
C11_SamePayloadTwice ==
  /\ obs.upload = "ok"
  /\ obs.overwrote = "same"


(***************************************************************************)
(* Claims about the feedback counter                                       *)
(***************************************************************************)

\* the number the environment variable stands for
Configured(limit) == Num(limit.v)

\* C12: when update_alert_counter computes a new value above the configured
\* RETRAINING_THRESHOLD the alert is posted exactly once to the webhook, and
\* when the new value is not above it nothing is posted.
C12_AlertAboveThreshold ==
  (cobs.status # 0 /\ cobs.new_count.kind = "int" /\ threshold.kind = "str")
    => cobs.posts = IF cobs.new_count.v[1] > Configured(threshold) THEN 1 ELSE 0

\* C13: a POST to /increment_counter with increment_by = n adds n to the stored
\* count (0 when there is none) and the response carries the updated stored value.
C13_IncrementStored ==
  (/\ cobs.status = 200 /\ cobs.dbfail = "none"
   /\ cobs.increment_factor.kind = "int"
   /\ cobs.before.kind \in {"none", "int"})
    => /\ Get(ref, "count") = Add(OrZero(cobs.before), cobs.increment_factor)
       /\ "counter" \in DOMAIN cobs.json
       /\ cobs.json["counter"] = Get(ref, "count")

\* the payloads update_counter builds: {"increment_by": 1} and {"increment_by": -1}
UIBodies == {PyInt(1), PyInt(0 - 1)}

\* C19: when /increment_counter answers a request of update_counter with
\* status 200, update_counter returns the count held by that response, not None.
C19_ClientServerAgree ==
  /\ (uret.called /\ uret.posted /\ cobs.status = 200) => uret.value # PyNull
  /\ (cobs.status = 200 /\ cobs.body \in UIBodies)
       => /\ update_counter_response(cobs.status, cobs.json) # PyNull
          /\ update_counter_response(cobs.status, cobs.json) = Get(ref, "count")

\* the alert was posted: count and increment are both strings
AlertPosted == cobs.posts = 1

\* the stored count was replaced
CountUpdated == cobs.status = 200 /\ ref.count # Absent /\ Get(ref, "count") # cobs.before


(***************************************************************************)
(* Claims about failures inside the loops                                  *)
(***************************************************************************)

\* C14: an upstream item that lacks a required field (results, id,
\* article_url, published_utc, title, description) is logged and only that
\* record is skipped: the remaining tickers and the cycle loop go on.
C14_MalformedItemSkipped ==
  obs.raised = "KeyError" =>
    /\ pc # "Crashed"
    /\ obs.logs \cap {"news_error", "scrape_error", "upload_error"} # {}
    /\ obs.upload = "none"


\* C15: a failure while listing, loading, exporting or writing one
\* (ticker, month) partition skips that partition only: the loop over the
\* partitions goes on to its end and the request is not answered with an error.
C15_PartitionFailureSkipped ==
  aobs.raised =>
    /\ response.status # 500
    /\ apc = "loop" \/ ati > Len(request.tickers.v)


(***************************************************************************)
(* Claims about the text export                                            *)
(***************************************************************************)

PassOver == pc \in {"LongSleep", "Crashed"}

\* the requests of the pass so far follow the ticker list, one per ticker, and
\* no more than batch_size of them were made since the last suspension
BatchesPartition ==
  /\ Len(requested) <= Len(tickers)
  /\ requested = SubSeq(tickers, 1, Len(requested))
  /\ batchReqs <= batch_size
  /\ pc = "Cooldown" => Len(requested) = Min(i + batch_size, Len(tickers))
  /\ pc = "LongSleep" => requested = tickers

\* C17: in every pass the batches partition the ticker list: each ticker gets
\* exactly one news-API request in the pass, none twice and none omitted, in
\* list order, and never more than 5 requests are made between two suspensions.
C17_OneRequestPerTicker ==
  /\ requested = SubSeq(tickers, 1, Min(Len(requested), Len(tickers)))
  /\ batchReqs <= 5
  /\ PassOver => requested = tickers


\* one iteration of the loop over the tickers was made
TickerStep == requested' # requested /\ requested' # <<>>

\* C20: the id of a new article is recorded in last_fetched_ids before its
\* content is scraped and written, so an article whose scrape fails or gives
\* no content is not written in that pass, nor in a later pass of the run for
\* as long as the upstream answers with the same id.
C20_LostAfterFailedScrape ==
  [][TickerStep =>
       /\ (obs'.kind = "new" /\ obs'.scrape \in {"empty", "status", "exception"})
            => /\ last_fetched_ids'[obs'.ticker] = obs'.id
               /\ bucket' = bucket
       /\ (obs'.id # None /\ obs'.id = seen[obs'.ticker])
            => /\ obs'.scrape = "none"
               /\ bucket' = bucket]_vars

\* an article whose scrape gave nothing in an earlier pass is answered again
\* by the upstream and skipped, nothing of its ticker being stored
C20_Witness ==
  /\ obs.kind = "duplicate"
  /\ obs.prev = obs.id
  /\ \A path \in DOMAIN bucket : path[1] # obs.ticker
  /\ \A w \in writes : w.source # obs.ticker


(***************************************************************************)
(* Claims about the page                                                   *)
(***************************************************************************)

\* the rerun triggered by a click on a button while a response is displayed
ClickOnAnswer(label) ==
  /\ interactions' = interactions + 1
  /\ answer # None
  /\ uobs'.trigger = label

\* C18: on the chatbot page, once a response is displayed for a Send click, a
\* click on Thumbs Up makes the rerun call update_counter with +1 and a click
\* on Thumbs Down makes it call update_counter with -1.
C18_FeedbackCounted ==
  [][/\ ClickOnAnswer("Thumbs Up") => feedback' = Append(feedback, 1)
     /\ ClickOnAnswer("Thumbs Down") => feedback' = Append(feedback, 0 - 1)]_vars

\* whatever the session does, update_counter is never called
NoFeedbackEver == feedback = <<>>

====
